---- MODULE Spec2Model ----
(***************************************************************************)
(* A model of the quadtree crate: the Rectangle geometry (geometry.rs),    *)
(* the tagged Leaf/Root tree (quadtree.rs, exported as QuadTree) and the   *)
(* uniform tree with optional children (quadtree_option.rs, exported as    *)
(* QuadTreeOption).  Both trees are built over the same boundary and fed   *)
(* the same insert calls, as benches/bench.rs does.                        *)
(*                                                                         *)
(* Coordinates are f64.  An f64 is modelled exactly on the sub-domain the  *)
(* model uses: a value is hi * 2^53 + lo / Unit with hi in {0, 1}.  With   *)
(* hi = 0 the value is a small multiple of 1/Unit, on which f64 addition   *)
(* and halving are exact.  With hi = 1 the value lies next to 2^53, where  *)
(* the f64 grid has spacing 1 below 2^53 and 2 above it, and an addition   *)
(* rounds to the nearest grid value, ties to the even mantissa.            *)
(*                                                                         *)
(* A tree is a function from paths (sequences of child slots, <<>> for the *)
(* root) to the node stored there.  insert returns the tree it leaves      *)
(* behind, its Result, and the path of the deepest node it was called on.  *)
(***************************************************************************)
EXTENDS Integers, Sequences, FiniteSets, TLC

\* ---------------------------------------------------------------- bounds
MaxInserts == 9

\* ------------------------------------------------------------------ f64
Unit == 2 ^ 4

F64(hi, lo) == [hi |-> hi, lo |-> lo]

\* the f64 value n, and the f64 value 2^53 + d
Num(n) == F64(0, n * Unit)
Big(d) == F64(1, d * Unit)

\* spacing of the f64 grid around 2^53 + lo/Unit
Ulp(lo) == IF lo < 0 THEN Unit ELSE 2 * Unit

\* IEEE-754 round to nearest, ties to even
RoundTiesEven(lo, step) ==
    LET k == lo \div step
        r == lo % step
    IN  IF 2 * r < step THEN k * step
        ELSE IF 2 * r > step THEN (k + 1) * step
        ELSE IF k % 2 = 0 THEN k * step ELSE (k + 1) * step

\* a + b
fadd(a, b) ==
    LET hi == a.hi + b.hi
        lo == a.lo + b.lo
    IN  IF hi = 0 THEN F64(0, lo) ELSE F64(hi, RoundTiesEven(lo, Ulp(lo)))

\* a / 2.0 (a small; exact while lo is even, which MaxInserts halvings of the
\* widths in Boundaries keep it)
fhalf(a) == F64(a.hi, a.lo \div 2)

\* a < b, a <= b, a >= b
flt(a, b) == a.hi < b.hi \/ (a.hi = b.hi /\ a.lo < b.lo)
fle(a, b) == a.hi < b.hi \/ (a.hi = b.hi /\ a.lo <= b.lo)
fge(a, b) == fle(b, a)

\* ------------------------------------------------------------- geometry
Rectangle_new(x, y, width, height) ==
    [x |-> x, y |-> y, width |-> width, height |-> height]

contains(r, x, y) ==
    /\ fge(x, r.x)
    /\ fle(x, fadd(r.x, r.width))
    /\ fge(y, r.y)
    /\ fle(y, fadd(r.y, r.height))

new_nw(r) == Rectangle_new(r.x, r.y, fhalf(r.width), fhalf(r.height))

new_ne(r) ==
    Rectangle_new(fadd(r.x, fhalf(r.width)), r.y, fhalf(r.width), fhalf(r.height))

new_sw(r) ==
    Rectangle_new(r.x, fadd(r.y, fhalf(r.height)), fhalf(r.width), fhalf(r.height))

new_se_north(r) ==
    Rectangle_new(fadd(r.x, fhalf(r.width)), r.y, fhalf(r.width), fhalf(r.height))

new_se(r) ==
    Rectangle_new(fadd(r.x, fhalf(r.width)), fadd(r.y, fhalf(r.height)),
                  fhalf(r.width), fhalf(r.height))

\* the payload (data: T) is never read by the trees and is left out
Point2D(x, y) == [x |-> x, y |-> y]

MAX_CAPACITY == 4

\* child slots, in the order the code visits them
Slots == <<"ne", "se", "sw", "nw">>
SlotSet == {"ne", "se", "sw", "nw"}
Child(path, slot) == Append(path, slot)
IsPrefix(a, b) == Len(a) <= Len(b) /\ SubSeq(b, 1, Len(a)) = a

\* --------------------------------------------------- tagged tree (QuadTree)
Leaf(boundary, points) == [kind |-> "Leaf", boundary |-> boundary, points |-> points]

QuadTree_new(boundary) == <<>> :> Leaf(boundary, <<>>)

subdivide_drops_points(t, path) ==
    IF t[path].kind = "Leaf"
    THEN LET boundary == t[path].boundary
             new_width == fhalf(boundary.width)
             new_height == fhalf(boundary.height)
         IN  [t EXCEPT ![path].kind = "Root", ![path].points = <<>>]
             @@ (Child(path, "ne") :>
                   Leaf(Rectangle_new(fadd(boundary.x, new_width), boundary.y,
                                      new_width, new_height), <<>>))
             @@ (Child(path, "se") :>
                   Leaf(Rectangle_new(fadd(boundary.x, new_width),
                                      fadd(boundary.y, new_height),
                                      new_width, new_height), <<>>))
             @@ (Child(path, "sw") :>
                   Leaf(Rectangle_new(boundary.x, fadd(boundary.y, new_height),
                                      new_width, new_height), <<>>))
             @@ (Child(path, "nw") :>
                   Leaf(Rectangle_new(boundary.x, boundary.y,
                                      new_width, new_height), <<>>))
    ELSE t

subdivide(t, path) ==
    IF t[path].kind = "Leaf"
    THEN LET boundary == t[path].boundary
             new_width == fhalf(boundary.width)
             new_height == fhalf(boundary.height)
         IN  [t EXCEPT ![path].kind = "Root"]
             @@ (Child(path, "ne") :>
                   Leaf(Rectangle_new(fadd(boundary.x, new_width), boundary.y,
                                      new_width, new_height), <<>>))
             @@ (Child(path, "se") :>
                   Leaf(Rectangle_new(fadd(boundary.x, new_width),
                                      fadd(boundary.y, new_height),
                                      new_width, new_height), <<>>))
             @@ (Child(path, "sw") :>
                   Leaf(Rectangle_new(boundary.x, fadd(boundary.y, new_height),
                                      new_width, new_height), <<>>))
             @@ (Child(path, "nw") :>
                   Leaf(Rectangle_new(boundary.x, boundary.y,
                                      new_width, new_height), <<>>))
    ELSE t

covers(t, path, x, y) == contains(t[path].boundary, x, y)

\* insert with the Leaf arm testing the capacity before the boundary
RECURSIVE insert_splits_first(_, _, _)
insert_splits_first(t, path, point) ==
    LET n == t[path]
        push == [tree |-> [t EXCEPT ![path].points = Append(@, point)],
                 res |-> "Ok", reach |-> path]
    IN  IF n.kind = "Leaf"
        THEN IF Len(n.points) = MAX_CAPACITY
             THEN insert_splits_first(subdivide(t, path), path, point)
             ELSE IF ~contains(n.boundary, point.x, point.y)
             THEN [tree |-> t, res |-> "ErrBoundary", reach |-> path]
             ELSE push
        ELSE IF ~contains(n.boundary, point.x, point.y)
             THEN [tree |-> t, res |-> "ErrBoundary", reach |-> path]
             ELSE IF Len(n.points) < MAX_CAPACITY
             THEN push
             ELSE IF covers(t, Child(path, "ne"), point.x, point.y)
             THEN insert_splits_first(t, Child(path, "ne"), point)
             ELSE IF covers(t, Child(path, "se"), point.x, point.y)
             THEN insert_splits_first(t, Child(path, "se"), point)
             ELSE IF covers(t, Child(path, "sw"), point.x, point.y)
             THEN insert_splits_first(t, Child(path, "sw"), point)
             ELSE IF covers(t, Child(path, "nw"), point.x, point.y)
             THEN insert_splits_first(t, Child(path, "nw"), point)
             ELSE [tree |-> t, res |-> "ErrNoSubTree", reach |-> path]

RECURSIVE insert(_, _, _)
insert(t, path, point) ==
    LET n == t[path]
        push == [tree |-> [t EXCEPT ![path].points = Append(@, point)],
                 res |-> "Ok", reach |-> path]
    IN  IF n.kind = "Leaf"
        THEN IF ~contains(n.boundary, point.x, point.y)
             THEN [tree |-> t, res |-> "ErrBoundary", reach |-> path]
             ELSE IF Len(n.points) = MAX_CAPACITY
             THEN insert(subdivide(t, path), path, point)
             ELSE push
        ELSE IF ~contains(n.boundary, point.x, point.y)
             THEN [tree |-> t, res |-> "ErrBoundary", reach |-> path]
             ELSE IF Len(n.points) < MAX_CAPACITY
             THEN push
             ELSE IF covers(t, Child(path, "ne"), point.x, point.y)
             THEN insert(t, Child(path, "ne"), point)
             ELSE IF covers(t, Child(path, "se"), point.x, point.y)
             THEN insert(t, Child(path, "se"), point)
             ELSE IF covers(t, Child(path, "sw"), point.x, point.y)
             THEN insert(t, Child(path, "sw"), point)
             ELSE IF covers(t, Child(path, "nw"), point.x, point.y)
             THEN insert(t, Child(path, "nw"), point)
             ELSE [tree |-> t, res |-> "ErrNoSubTree", reach |-> path]

RECURSIVE count(_, _)
count(t, path) ==
    IF t[path].kind = "Leaf"
    THEN Len(t[path].points)
    ELSE Len(t[path].points) + count(t, Child(path, "ne")) + count(t, Child(path, "se"))
         + count(t, Child(path, "sw")) + count(t, Child(path, "nw"))

\* the points of a bucket that the query rectangle contains, in bucket order
Filter_keeps_all(points, boundary) == points

Filter(points, boundary) ==
    SelectSeq(points, LAMBDA point : contains(boundary, point.x, point.y))

RECURSIVE query(_, _, _)
query(t, path, boundary) ==
    IF t[path].kind = "Leaf"
    THEN Filter(t[path].points, boundary)
    ELSE Filter(t[path].points, boundary)
         \o query(t, Child(path, "ne"), boundary)
         \o query(t, Child(path, "se"), boundary)
         \o query(t, Child(path, "sw"), boundary)
         \o query(t, Child(path, "nw"), boundary)

\* ------------------------------------------- uniform tree (QuadTreeOption)
OptNode(boundary, points) == [boundary |-> boundary, points |-> points]

QuadTreeOption_new(boundary) == <<>> :> OptNode(boundary, <<>>)

is_none_always(t, path, slot) == TRUE

is_none(t, path, slot) == Child(path, slot) \notin DOMAIN t

\* self.<slot> = Some(Box::new(node)): the slot's old subtree, if any, is dropped
set_child(t, path, slot, node) ==
    [q \in {q \in DOMAIN t : ~IsPrefix(Child(path, slot), q)} \cup {Child(path, slot)} |->
        IF q = Child(path, slot) THEN node ELSE t[q]]

\* the quadrant the midpoint comparison selects
route(boundary, point) ==
    LET half_width == fhalf(boundary.width)
        half_height == fhalf(boundary.height)
        half_x == fadd(half_width, boundary.x)
        half_y == fadd(half_height, boundary.y)
    IN  IF flt(point.x, half_x)
        THEN IF flt(point.y, half_y) THEN "nw" ELSE "sw"
        ELSE IF flt(point.y, half_y) THEN "ne" ELSE "se"

quadrant(boundary, slot) ==
    CASE slot = "nw" -> new_nw(boundary)
      [] slot = "sw" -> new_sw(boundary)
      [] slot = "ne" -> new_ne(boundary)
      [] slot = "se" -> new_se(boundary)

\* insert with the capacity test off by one
RECURSIVE insert_option_one_more(_, _, _)
insert_option_one_more(t, path, point) ==
    LET n == t[path]
    IN  IF ~contains(n.boundary, point.x, point.y)
        THEN [tree |-> t, res |-> "ErrBoundary", reach |-> path]
        ELSE IF Len(n.points) <= MAX_CAPACITY
        THEN [tree |-> [t EXCEPT ![path].points = Append(@, point)],
              res |-> "Ok", reach |-> path]
        ELSE LET slot == route(n.boundary, point)
                 t1 == IF is_none(t, path, slot)
                       THEN set_child(t, path, slot,
                                      OptNode(quadrant(n.boundary, slot), <<>>))
                       ELSE t
             IN  insert_option_one_more(t1, Child(path, slot), point)

RECURSIVE insert_option(_, _, _)
insert_option(t, path, point) ==
    LET n == t[path]
    IN  IF ~contains(n.boundary, point.x, point.y)
        THEN [tree |-> t, res |-> "ErrBoundary", reach |-> path]
        ELSE IF Len(n.points) < MAX_CAPACITY
        THEN [tree |-> [t EXCEPT ![path].points = Append(@, point)],
              res |-> "Ok", reach |-> path]
        ELSE LET slot == route(n.boundary, point)
                 t1 == IF is_none(t, path, slot)
                       THEN set_child(t, path, slot,
                                      OptNode(quadrant(n.boundary, slot), <<>>))
                       ELSE t
             IN  insert_option(t1, Child(path, slot), point)

RECURSIVE count_option(_, _)
count_option(t, path) ==
    LET sub(slot) == IF Child(path, slot) \notin DOMAIN t THEN 0
                     ELSE count_option(t, Child(path, slot))
    IN  Len(t[path].points) + sub("ne") + sub("se") + sub("sw") + sub("nw")

RECURSIVE query_option(_, _, _)
query_option(t, path, boundary) ==
    LET sub(slot) == IF Child(path, slot) \notin DOMAIN t THEN <<>>
                     ELSE query_option(t, Child(path, slot), boundary)
    IN  Filter(t[path].points, boundary)
        \o sub("ne") \o sub("se") \o sub("sw") \o sub("nw")

\* ----------------------------------------------------------------- inputs
\* root boundaries: a 4 x 4 box at the origin and a 1 x 1 box next to 2^53
Boundaries == { Rectangle_new(Num(0), Num(0), Num(4), Num(4)),
                Rectangle_new(Big(-4), Big(-3), Num(1), Num(1)) }

\* points offered to insert: the centre of the small box (on both midlines),
\* an interior point, a corner, a point just right of the small box, and two
\* points of the box next to 2^53
Points == { Point2D(Num(2), Num(2)), Point2D(Num(1), Num(3)), Point2D(Num(4), Num(4)),
            Point2D(Num(5), Num(2)),
            Point2D(Big(-4), Big(-2)), Point2D(Big(-3), Big(-3)) }

\* ------------------------------------------------------------------ state
VARIABLES tagged, option, okTagged, okOption, accTagged, accOption, last

vars == <<tagged, option, okTagged, okOption, accTagged, accOption, last>>

\* last: the most recent insert call: its point, what each tree returned, and
\* the path of the deepest node each tree's insert was called on
NoCall == [point |-> Point2D(Num(0), Num(0)), tagged |-> "None", option |-> "None",
           reachTagged |-> <<>>, reachOption |-> <<>>]

Init ==
    /\ \E boundary \in Boundaries :
          /\ tagged = QuadTree_new(boundary)
          /\ option = QuadTreeOption_new(boundary)
    /\ okTagged = 0
    /\ okOption = 0
    /\ accTagged = [p \in Points |-> 0]
    /\ accOption = [p \in Points |-> 0]
    /\ last = NoCall

\* one element of the input slice is inserted into both trees
Insert(point) ==
    LET rt == insert(tagged, <<>>, point)
        ro == insert_option(option, <<>>, point)
    IN  /\ okTagged < MaxInserts
        /\ okOption < MaxInserts
        /\ tagged' = rt.tree
        /\ option' = ro.tree
        /\ okTagged' = IF rt.res = "Ok" THEN okTagged + 1 ELSE okTagged
        /\ okOption' = IF ro.res = "Ok" THEN okOption + 1 ELSE okOption
        /\ accTagged' = IF rt.res = "Ok" THEN [accTagged EXCEPT ![point] = @ + 1]
                        ELSE accTagged
        /\ accOption' = IF ro.res = "Ok" THEN [accOption EXCEPT ![point] = @ + 1]
                        ELSE accOption
        /\ last' = [point |-> point, tagged |-> rt.res, option |-> ro.res,
                    reachTagged |-> rt.reach, reachOption |-> ro.reach]

Next == \E point \in Points : Insert(point)

Spec == Init /\ [][Next]_vars


\* ---------------------------------------------------------------- helpers
Occurrences(seq, p) == Cardinality({i \in DOMAIN seq : seq[i] = p})

HasChild(t, path) == \E slot \in SlotSet : Child(path, slot) \in DOMAIN t

RootBoundary == tagged[<<>>].boundary

Called == last.tagged # "None"

InBounds == contains(RootBoundary, last.point.x, last.point.y)

\* query rectangles: each root boundary, two quadrant-sized boxes of the small
\* one, a box that overlaps the small one, and a sliver of the box next to 2^53
Regions == Boundaries \cup
           { Rectangle_new(Num(2), Num(2), Num(2), Num(2)),
             Rectangle_new(Num(0), Num(2), Num(2), Num(2)),
             Rectangle_new(Num(3), Num(3), Num(5), Num(5)),
             Rectangle_new(Big(-4), Big(-2), fhalf(Num(1)), fhalf(Num(1))) }

\* ------------------------------------------------------------------ C1
QueryExact(result, acc, region) ==
    /\ \A i \in DOMAIN result :
          /\ result[i] \in Points
          /\ contains(region, result[i].x, result[i].y)
    /\ \A p \in Points :
          contains(region, p.x, p.y) => Occurrences(result, p) = acc[p]

\* C1: in each variant, query(R) returns exactly the successfully inserted
\* points that R contains: every returned point is contained in R, and every
\* accepted point that R contains is returned once per accepted insertion.
C1_QueryReturnsExactlyContained ==
    \A region \in Regions :
        /\ QueryExact(query(tagged, <<>>, region), accTagged, region)
        /\ QueryExact(query_option(option, <<>>, region), accOption, region)

\* both trees have split below the root, and some query returns a proper,
\* non-empty part of the stored points, one of them stored more than once
C1_Witness ==
    /\ \E path \in DOMAIN tagged : Len(path) = 2
    /\ \E path \in DOMAIN option : Len(path) = 2
    /\ \E region \in Regions :
          LET result == query(tagged, <<>>, region)
          IN  /\ 0 < Len(result)
              /\ Len(result) < okTagged
              /\ Len(query_option(option, <<>>, region)) = Len(result)
              /\ \E p \in Points : Occurrences(result, p) >= 2

\* ------------------------------------------------------------------ C2
\* C2: in each variant, count() equals the number of insert calls that have
\* returned Ok so far on that tree.
C2_CountIsOkInserts ==
    /\ count(tagged, <<>>) = okTagged
    /\ count_option(option, <<>>) = okOption

\* a rejected call after the trees have split, with repeated coordinates stored
C2_Witness ==
    /\ last.tagged = "ErrBoundary"
    /\ last.option = "ErrBoundary"
    /\ okTagged >= 6
    /\ HasChild(tagged, <<>>)
    /\ HasChild(option, <<>>)
    /\ \E p \in Points : accTagged[p] >= 2 /\ accOption[p] >= 2

\* ------------------------------------------------------------------ C3
\* C3: an insert of a point the root boundary does not contain returns Err
\* and leaves the whole tree unchanged in both variants: no bucket gains a
\* point, no node is subdivided, no child is created, and count() and every
\* query are as before.
C3_OutOfBoundsLeavesTreeUnchanged ==
    [][ ~contains(RootBoundary, last'.point.x, last'.point.y) =>
           /\ last'.tagged = "ErrBoundary"
           /\ last'.option = "ErrBoundary"
           /\ tagged' = tagged
           /\ option' = option
           /\ count(tagged', <<>>) = count(tagged, <<>>)
           /\ count_option(option', <<>>) = count_option(option, <<>>)
           /\ \A region \in Regions :
                 /\ query(tagged', <<>>, region) = query(tagged, <<>>, region)
                 /\ query_option(option', <<>>, region)
                       = query_option(option, <<>>, region)
      ]_vars

\* an out-of-bounds point has just been offered to a full Leaf root
C3_Witness ==
    /\ Called
    /\ ~InBounds
    /\ last.tagged = "ErrBoundary"
    /\ tagged[<<>>].kind = "Leaf"
    /\ Len(tagged[<<>>].points) = MAX_CAPACITY
    /\ Len(option[<<>>].points) = MAX_CAPACITY
    /\ ~HasChild(option, <<>>)

\* ------------------------------------------------------------------ C4
\* C4: in each variant, an insert of a point the root boundary contains
\* returns Ok: the bounds check never fails in a recursive call, and the
\* tagged variant never returns "Point couldn't be inserted in any sub-tree".
C4_InBoundsInsertReturnsOk ==
    /\ (Called /\ InBounds) => (last.tagged = "Ok" /\ last.option = "Ok")
    /\ last.tagged # "ErrNoSubTree"
    /\ last.tagged = "ErrBoundary" => last.reachTagged = <<>>
    /\ last.option = "ErrBoundary" => last.reachOption = <<>>

\* ------------------------------------------------------------------ C5
SameBag(a, b) == \A p \in Points : Occurrences(a, p) = Occurrences(b, p)

\* C5: the two variants are behaviour-equivalent on the same insert calls:
\* each insert returns Ok in one exactly when it does in the other, count()
\* agrees, and every query returns the same multiset of points.
C5_VariantsEquivalent ==
    /\ (last.tagged = "Ok") <=> (last.option = "Ok")
    /\ count(tagged, <<>>) = count_option(option, <<>>)
    /\ \A region \in Regions :
          SameBag(query(tagged, <<>>, region), query_option(option, <<>>, region))

\* ------------------------------------------------------------------ C6
Capacity(t) == \A path \in DOMAIN t : Len(t[path].points) <= MAX_CAPACITY

\* an insert of point that reached the node at reach: at every node on the way
\* that was full (and whose boundary contains the point) the bucket is left
\* alone and the insert went on into a child
PassedOn(t, u, reach, point) ==
    \A path \in DOMAIN t :
        (/\ IsPrefix(path, reach)
         /\ Len(t[path].points) = MAX_CAPACITY
         /\ contains(t[path].boundary, point.x, point.y))
        => /\ u[path].points = t[path].points
           /\ Cardinality({slot \in SlotSet : IsPrefix(Child(path, slot), reach)}) = 1

\* C6: every bucket holds at most MAX_CAPACITY points, and an insert arriving
\* at a node whose bucket already holds MAX_CAPACITY points is not appended
\* to that bucket but passed to exactly one child quadrant.
C6_BucketBoundedAndFullNodePassesOn ==
    /\ [](Capacity(tagged) /\ Capacity(option))
    /\ [][ /\ PassedOn(tagged, tagged', last'.reachTagged, last'.point)
           /\ PassedOn(option, option', last'.reachOption, last'.point) ]_vars

\* ------------------------------------------------------------------ C7
ContainsDescendants(t) ==
    \A path \in DOMAIN t : \A below \in DOMAIN t :
        IsPrefix(path, below) =>
            \A i \in DOMAIN t[below].points :
                contains(t[path].boundary, t[below].points[i].x, t[below].points[i].y)

\* the half-width, half-height box in the named corner of r
QuadrantBox(r, slot) ==
    [x |-> IF slot \in {"ne", "se"} THEN fadd(r.x, fhalf(r.width)) ELSE r.x,
     y |-> IF slot \in {"se", "sw"} THEN fadd(r.y, fhalf(r.height)) ELSE r.y,
     width |-> fhalf(r.width),
     height |-> fhalf(r.height)]

ChildrenAreQuadrants(t) ==
    \A path \in DOMAIN t : \A slot \in SlotSet :
        Child(path, slot) \in DOMAIN t =>
            t[Child(path, slot)].boundary = QuadrantBox(t[path].boundary, slot)

\* C7: every node's boundary contains every point stored in its bucket or in
\* the bucket of a descendant, and every child's boundary is the half-width,
\* half-height quadrant of its parent's boundary for the slot it occupies.
C7_BoundaryContainsSubtree ==
    /\ ContainsDescendants(tagged)
    /\ ContainsDescendants(option)
    /\ ChildrenAreQuadrants(tagged)
    /\ ChildrenAreQuadrants(option)

\* both trees store a point two levels below the root
C7_Witness ==
    /\ \E path \in DOMAIN tagged : Len(path) = 2 /\ Len(tagged[path].points) > 0
    /\ \E path \in DOMAIN option : Len(path) = 2 /\ Len(option[path].points) > 0

\* ------------------------------------------------------------------ C8
\* what one step may do to the nodes of either tree
Lifecycle(t, u, reach, point) ==
    /\ \A path \in DOMAIN t :
          /\ path \in DOMAIN u
          /\ u[path].boundary = t[path].boundary
          /\ IsPrefix(t[path].points, u[path].points)
          /\ (~HasChild(t, path) /\ HasChild(u, path))
             <=> (/\ ~HasChild(t, path)
                  /\ IsPrefix(path, reach)
                  /\ Len(t[path].points) = MAX_CAPACITY
                  /\ contains(t[path].boundary, point.x, point.y))
    /\ \A path \in DOMAIN u \ DOMAIN t :
          /\ ~HasChild(u, path)
          /\ u[path].points \in {<<>>, <<point>>}

NewSlots(t, u, path) ==
    {slot \in SlotSet : Child(path, slot) \in DOMAIN u \ DOMAIN t}

TaggedChildren(t, u) ==
    /\ \A path \in DOMAIN u :
          /\ (u[path].kind = "Root") <=> HasChild(u, path)
          /\ HasChild(u, path) => \A slot \in SlotSet : Child(path, slot) \in DOMAIN u
    /\ \A path \in DOMAIN t :
          (~HasChild(t, path) /\ HasChild(u, path)) => NewSlots(t, u, path) = SlotSet

OptionChildren(t, u, reach) ==
    \A path \in DOMAIN t :
        /\ Cardinality(NewSlots(t, u, path)) <= 1
        /\ (~HasChild(t, path) /\ HasChild(u, path))
              => Cardinality(NewSlots(t, u, path)) = 1
        /\ \A slot \in NewSlots(t, u, path) : IsPrefix(Child(path, slot), reach)

\* C8: a node starts terminal with an empty bucket and becomes internal at
\* the first in-bounds insert that arrives when its bucket holds MAX_CAPACITY
\* points; it never loses a child or a stored point and its boundary never
\* changes.  At that transition the tagged variant creates all four children,
\* the uniform variant only the child the point is routed to, and a later
\* insert creates at most one further child per node on its path.
C8_NodeLifecycle ==
    /\ ~HasChild(tagged, <<>>) /\ tagged[<<>>].points = <<>>
    /\ ~HasChild(option, <<>>) /\ option[<<>>].points = <<>>
    /\ [][ /\ Lifecycle(tagged, tagged', last'.reachTagged, last'.point)
           /\ Lifecycle(option, option', last'.reachOption, last'.point)
           /\ TaggedChildren(tagged, tagged')
           /\ OptionChildren(option, option', last'.reachOption) ]_vars

\* the tagged root has its four children while the uniform root has two or
\* three, each holding a point
C8_Witness ==
    /\ tagged[<<>>].kind = "Root"
    /\ \A slot \in SlotSet : Child(<<>>, slot) \in DOMAIN tagged
    /\ LET present == {slot \in SlotSet : Child(<<>>, slot) \in DOMAIN option}
       IN  /\ Cardinality(present) \in {2, 3}
           /\ \A slot \in present : Len(option[Child(<<>>, slot)].points) > 0

\* ------------------------------------------------------------------ C9
Routes(path, reach, t, point) ==
    /\ IsPrefix(path, reach)
    /\ Len(t[path].points) = MAX_CAPACITY
    /\ contains(t[path].boundary, point.x, point.y)

\* the first slot, in the order NE, SE, SW, NW, whose boundary contains point
FirstCovering(u, path, point) ==
    LET covering == {i \in DOMAIN Slots :
                        contains(u[Child(path, Slots[i])].boundary, point.x, point.y)}
    IN  IF covering = {} THEN "none"
        ELSE Slots[CHOOSE i \in covering : \A j \in covering : i <= j]

\* west exactly when x is left of the mid-x, north exactly when y is above mid-y
BySide(boundary, point) ==
    LET west == flt(point.x, fadd(boundary.x, fhalf(boundary.width)))
        north == flt(point.y, fadd(boundary.y, fhalf(boundary.height)))
    IN  IF west THEN (IF north THEN "nw" ELSE "sw")
        ELSE (IF north THEN "ne" ELSE "se")

TaggedStored(t, u, path, slot) ==
    LET before(s) == IF Child(path, s) \in DOMAIN t THEN count(t, Child(path, s)) ELSE 0
    IN  \A s \in SlotSet :
            count(u, Child(path, s)) = before(s) + (IF s = slot THEN 1 ELSE 0)

OptionStored(t, u, path, slot) ==
    LET cnt(w, s) == IF Child(path, s) \in DOMAIN w
                     THEN count_option(w, Child(path, s)) ELSE 0
    IN  \A s \in SlotSet : cnt(u, s) = cnt(t, s) + (IF s = slot THEN 1 ELSE 0)

\* C9: a point handed to a full node goes, in the tagged variant, to the first
\* child in the order NE, SE, SW, NW whose boundary contains it and, in the
\* uniform variant, west exactly when p.x < mid-x and north exactly when
\* p.y < mid-y; in both variants it is stored in exactly one child subtree.
C9_QuadrantRouting ==
    [][ /\ \A path \in DOMAIN tagged :
              Routes(path, last'.reachTagged, tagged, last'.point) =>
                 LET slot == FirstCovering(tagged', path, last'.point)
                 IN  /\ slot # "none"
                     /\ IsPrefix(Child(path, slot), last'.reachTagged)
                     /\ TaggedStored(tagged, tagged', path, slot)
        /\ \A path \in DOMAIN option :
              Routes(path, last'.reachOption, option, last'.point) =>
                 LET slot == BySide(option[path].boundary, last'.point)
                 IN  /\ IsPrefix(Child(path, slot), last'.reachOption)
                     /\ OptionStored(option, option', path, slot)
      ]_vars

\* ------------------------------------------------------------------ C10
InternalIsFull(t) ==
    \A path \in DOMAIN t : HasChild(t, path) => Len(t[path].points) = MAX_CAPACITY

BucketGrowsToFull(t, u) ==
    \A path \in DOMAIN t :
        /\ IsPrefix(t[path].points, u[path].points)
        /\ Len(u[path].points) <= Len(t[path].points) + 1
        /\ (Len(t[path].points) = MAX_CAPACITY \/ HasChild(t, path))
              => u[path].points = t[path].points

\* C10: every node that has a child holds exactly MAX_CAPACITY points in its
\* own bucket; these are the first MAX_CAPACITY points the node accepted and
\* never change afterwards, so no insert appends to the bucket of a node that
\* already has children.
C10_InternalBucketFullAndFrozen ==
    /\ [](InternalIsFull(tagged) /\ InternalIsFull(option))
    /\ [][ BucketGrowsToFull(tagged, tagged') /\ BucketGrowsToFull(option, option') ]_vars

\* an insert has just gone through an internal root into a child in both trees
C10_Witness ==
    /\ HasChild(tagged, <<>>)
    /\ HasChild(option, <<>>)
    /\ last.tagged = "Ok"
    /\ last.option = "Ok"
    /\ Len(last.reachTagged) >= 1
    /\ Len(last.reachOption) >= 1

====
